---- MODULE Spec2Model ----
(***************************************************************************)
(* The workflow graph store (store/workflowStore.ts) and the edit session  *)
(* of the workflow builder page (pages/WorkflowBuilderPage.jsx) as a state *)
(* machine.  Every synchronous store operation is one action; every async  *)
(* handler is split at its awaits into the step that sends a request and   *)
(* the step that consumes the response.                                    *)
(*                                                                         *)
(* JavaScript values are modelled as strings: null, undefined and false    *)
(* are the tagged strings Null, Undefined and False, so that Truthy(v) is  *)
(* what `if (v)` tests.  An object is a function from its keys.            *)
(***************************************************************************)
EXTENDS Integers, Sequences, FiniteSets, TLC

VARIABLES
    nodes,              \* store.nodes: the node list
    edges,              \* store.edges: the edge list
    selectedWorkflowId, \* store.selectedWorkflowId
    now,                \* the value Date.now() returns
    isExecuting,        \* page state isExecuting
    isSaving,           \* page state isSaving
    executionResult,    \* page state executionResult
    run,                \* the pending saveAndExecuteWorkflow call of the page
    saves,              \* the pending saveWorkflow calls started by handleSaveWorkflow
    loads,              \* the pending loadWorkflow calls
    uploads,            \* the pending uploadDocument calls of the knowledge bases
    last                \* history: the operation that produced this state

vars == <<nodes, edges, selectedWorkflowId, now, isExecuting, isSaving,
          executionResult, run, saves, loads, uploads, last>>

storeVars == <<nodes, edges, selectedWorkflowId>>
pageVars == <<isExecuting, isSaving, executionResult, run, saves, loads, uploads>>

----------------------------------------------------------------------------
(* Bounds of the model *)

\* Date.now() takes the values 0..MaxClock
MaxClock == 1
\* nodes in the list, in the specification of the graph store
MaxNodes == 2
\* edges in the list
MaxEdges == 2

----------------------------------------------------------------------------
(* JavaScript values *)

Null == "<null>"
Undefined == "<undefined>"
False == "<false>"

\* what `if (v)`, `!v` and `v || d` test
Truthy(v) == v \notin {"", Null, Undefined, False}

\* null where an object may stand (a record, so that it compares with records)
NullObject == [isNull |-> TRUE]

\* v || d
Or(v, d) == IF Truthy(v) THEN v ELSE d

\* object.key, undefined when the object has no such key
Get(object, key) == IF key \in DOMAIN object THEN object[key] ELSE Undefined

\* the object with no key: {}
EmptyObject == [k \in {} |-> ""]

\* { ...a, ...b }
Spread(a, b) ==
    [k \in (DOMAIN a) \cup (DOMAIN b) |-> IF k \in DOMAIN b THEN b[k] ELSE a[k]]

\* the index of the first element of a sequence that is in a set of indices,
\* 0 when there is none: what array.find comes to
FirstIndex(matches) ==
    IF matches = {} THEN 0
    ELSE CHOOSE i \in matches : \A j \in matches : i <= j

\* nodes.find(node => node.id === id)
findById(ns, id) == FirstIndex({i \in 1..Len(ns) : ns[i].id = id})

\* nodes.find(node => node.type === type)
findByType(ns, type) == FirstIndex({i \in 1..Len(ns) : ns[i].type = type})

----------------------------------------------------------------------------
(* Node kinds and their default configuration *)

\* the sidebar's component list (WorkflowBuilderPage componentTypes)
componentTypes == {"userQueryNode", "llmNode", "knowledgeBaseNode", "outputNode"}

QueryPlaceholder == "Write your query here"
OutputPlaceholder == "Workflow output will appear here."

getNodeName(type) ==
    CASE type = "userQueryNode" -> "UserQuery"
      [] type = "knowledgeBaseNode" -> "KnowledgeBase"
      [] type = "llmNode" -> "LLMEngine"
      [] type = "outputNode" -> "Output"
      [] type = "webSearchNode" -> "WebSearch"
      [] OTHER -> type

\* the page's own getNodeName, which has no case for webSearchNode
pageGetNodeName(type) ==
    CASE type = "userQueryNode" -> "UserQuery"
      [] type = "knowledgeBaseNode" -> "KnowledgeBase"
      [] type = "llmNode" -> "LLMEngine"
      [] type = "outputNode" -> "Output"
      [] OTHER -> type

getNodeLabel(type) ==
    CASE type = "userQueryNode" -> "User Query"
      [] type = "llmNode" -> "LLM (OpenAI)"
      [] type = "knowledgeBaseNode" -> "Knowledge Base"
      [] type = "outputNode" -> "Output"
      [] OTHER -> type

\* the switch of addNode
initialConfig(type) ==
    CASE type = "llmNode" ->
            [model |-> "GPT-4o-Mini", apiKey |-> "", temperature |-> "0.7",
             webSearchEnabled |-> False, serpApiKey |-> "",
             prompt |-> "You are a helpful AI assistant. Use the provided context"]
      [] type = "knowledgeBaseNode" ->
            [embeddingModel |-> "text-embedding-3-large", apiKey |-> "",
             uploadedFileName |-> "", uploadedFile |-> Null]
      [] type = "userQueryNode" -> [query |-> QueryPlaceholder]
      [] type = "outputNode" -> [output |-> OutputPlaceholder]
      [] type = "webSearchNode" -> [serpApiKey |-> ""]
      [] OTHER -> EmptyObject

\* the page's getDefaultConfig, given to addNode as node.data.config
getDefaultConfig(type) ==
    CASE type = "llmNode" ->
            [model |-> "GPT-4o-Mini", apiKey |-> "", temperature |-> "0.7",
             webSearchEnabled |-> False, serpApiKey |-> "",
             prompt |-> "You are a helpful AI assistant."]
      [] type = "knowledgeBaseNode" ->
            [embeddingModel |-> "text-embedding-3-large", apiKey |-> "",
             uploadedFileName |-> "", uploadedFile |-> Null]
      [] type = "userQueryNode" -> [query |-> QueryPlaceholder]
      [] type = "outputNode" -> [output |-> OutputPlaceholder]
      [] OTHER -> EmptyObject

----------------------------------------------------------------------------
(* Ids *)

\* `${type}_${Date.now()}`
NodeId(type, t) == type \o "_" \o ToString(t)

\* `e${connection.source}-${connection.target}-${Date.now()}`
EdgeId(source, target, t) == "e" \o source \o "-" \o target \o "-" \o ToString(t)

NodeIds(ns) == {ns[i].id : i \in 1..Len(ns)}

----------------------------------------------------------------------------
(* The graph store *)

\* the node as the caller gives it: what addNode would append without the
\* defaults of the kind
nodeAsGiven(node) == node

\* the node addNode appends: the kind's defaults under the caller's config
nodeWithDefaults(node) ==
    [node EXCEPT !.data =
        [node.data EXCEPT
            !.name = IF Truthy(node.data.name) THEN node.data.name
                     ELSE getNodeName(node.data.type),
            !.config = Spread(initialConfig(node.data.type), node.data.config)]]

addNode(node) ==
    /\ nodes' = Append(nodes, nodeWithDefaults(node))
    /\ UNCHANGED <<edges, selectedWorkflowId>>

\* isWebSearchVisible: some userQueryNode and some llmNode are joined by an edge
isWebSearchVisible ==
    \E i, j \in 1..Len(nodes) :
        /\ nodes[i].type = "userQueryNode"
        /\ nodes[j].type = "llmNode"
        /\ \E e \in 1..Len(edges) :
              \/ edges[e].source = nodes[i].id /\ edges[e].target = nodes[j].id
              \/ edges[e].source = nodes[j].id /\ edges[e].target = nodes[i].id

\* the kinds the sidebar offers for dragging
visibleComponentTypes ==
    componentTypes \cup (IF isWebSearchVisible THEN {"webSearchNode"} ELSE {})

\* onDrop of a sidebar component of the given type
onDrop(type) ==
    /\ type \in visibleComponentTypes
    /\ addNode([id |-> NodeId(type, now),
                type |-> type,
                position |-> [x |-> 0, y |-> 0],
                data |-> [label |-> getNodeLabel(type),
                          name |-> pageGetNodeName(type),
                          type |-> type,
                          config |-> getDefaultConfig(type)]])
    /\ last' = [op |-> "addNode", id |-> NodeId(type, now)]
    /\ UNCHANGED <<now, pageVars>>

removedNodes(ns, nodeId) == SelectSeq(ns, LAMBDA n : n.id # nodeId)

removedEdges(es, nodeId) ==
    SelectSeq(es, LAMBDA e : e.source # nodeId /\ e.target # nodeId)

removeNode(nodeId) ==
    /\ nodes' = removedNodes(nodes, nodeId)
    /\ edges' = removedEdges(edges, nodeId)
    /\ last' = [op |-> "removeNode", id |-> nodeId]
    /\ UNCHANGED <<selectedWorkflowId, now, pageVars>>

removeEdge(edgeId) ==
    /\ edges' = SelectSeq(edges, LAMBDA e : e.id # edgeId)
    /\ last' = [op |-> "removeEdge", id |-> edgeId]
    /\ UNCHANGED <<nodes, selectedWorkflowId, now, pageVars>>

\* a node list in which the node takes the new config, and which gets a new
\* output node with that config when no node has the id
updatedOrAddedNodes(ns, nodeId, newConfig) ==
    IF findById(ns, nodeId) # 0
    THEN [i \in 1..Len(ns) |->
            IF ns[i].id = nodeId
            THEN [ns[i] EXCEPT !.data.config = Spread(@, newConfig)]
            ELSE ns[i]]
    ELSE Append(ns, [id |-> nodeId, type |-> "outputNode",
                     position |-> [x |-> 0, y |-> 0],
                     data |-> [label |-> "Output", name |-> "Output",
                               type |-> "outputNode", config |-> newConfig]])

\* a node list in which the node takes the new config in place of its own:
\* the assignment updateNodeConfig would make without the spread of
\* node.data.config
replacedNodes(ns, nodeId, newConfig) ==
    [i \in 1..Len(ns) |->
        IF ns[i].id = nodeId
        THEN [ns[i] EXCEPT !.data.config = newConfig]
        ELSE ns[i]]

\* the node list updateNodeConfig sets
updatedNodes(ns, nodeId, newConfig) ==
    [i \in 1..Len(ns) |->
        IF ns[i].id = nodeId
        THEN [ns[i] EXCEPT !.data.config = Spread(ns[i].data.config, newConfig)]
        ELSE ns[i]]

updateNodeConfig(nodeId, newConfig) ==
    /\ nodes' = updatedNodes(nodes, nodeId, newConfig)
    /\ last' = [op |-> "updateNodeConfig", id |-> nodeId, config |-> newConfig]
    /\ UNCHANGED <<edges, selectedWorkflowId, now, pageVars>>

\* reactflow's applyNodeChanges and applyEdgeChanges for the changes remove
\* and position: an element with a remove change is left out, the others take
\* the position of their position changes in turn
changedElement(changes, element) ==
    LET positions == SelectSeq(changes,
                        LAMBDA c : c.id = element.id /\ c.type = "position")
    IN  IF positions = <<>> THEN element
        ELSE [element EXCEPT !.position = positions[Len(positions)].position]

applyChanges(changes, elements) ==
    LET kept == SelectSeq(elements,
                    LAMBDA el : \A i \in 1..Len(changes) :
                                  ~(changes[i].id = el.id /\ changes[i].type = "remove"))
    IN  [i \in 1..Len(kept) |-> changedElement(changes, kept[i])]

\* onNodesChange: the nodes after the renderer's batch of changes
onNodesChange(changes) ==
    /\ nodes' = applyChanges(changes, nodes)
    /\ last' = [op |-> "onNodesChange", changes |-> changes]
    /\ UNCHANGED <<edges, selectedWorkflowId, now, pageVars>>

\* onEdgesChange: the edges after the renderer's batch of changes
onEdgesChange(changes) ==
    /\ edges' = applyChanges(changes, edges)
    /\ last' = [op |-> "onEdgesChange", changes |-> changes]
    /\ UNCHANGED <<nodes, selectedWorkflowId, now, pageVars>>

\* the name of an edge, were the target's kind looked at before the source's
determineEdgeNameByTarget(connection, ns) ==
    LET s == findById(ns, connection.source)
        t == findById(ns, connection.target)
    IN  IF s = 0 \/ t = 0 THEN "Unknown"
        ELSE IF ns[t].data.type = "outputNode" THEN "Final Output"
        ELSE IF ns[t].data.type = "llmNode"
                /\ connection.targetHandle = "context-input" THEN "Context"
        ELSE IF ns[t].data.type = "llmNode"
                /\ connection.targetHandle = "query-input" THEN "Query"
        ELSE IF ns[t].data.type = "knowledgeBaseNode"
                /\ connection.targetHandle = "kb-input" THEN "Query Intake"
        ELSE IF ns[s].data.type = "userQueryNode" THEN "Query"
        ELSE IF ns[s].data.type = "knowledgeBaseNode"
                /\ connection.sourceHandle = "kb-output" THEN "Context"
        ELSE IF ns[s].data.type = "llmNode"
                /\ connection.sourceHandle = "llm-output" THEN "Answer"
        ELSE "Connection"

determineEdgeName(connection, ns) ==
    LET s == findById(ns, connection.source)
        t == findById(ns, connection.target)
    IN  IF s = 0 \/ t = 0 THEN "Unknown"
        ELSE IF ns[s].data.type = "userQueryNode" THEN "Query"
        ELSE IF ns[t].data.type = "knowledgeBaseNode"
                /\ connection.targetHandle = "kb-input" THEN "Query Intake"
        ELSE IF ns[s].data.type = "knowledgeBaseNode"
                /\ connection.sourceHandle = "kb-output" THEN "Context"
        ELSE IF ns[t].data.type = "llmNode"
                /\ connection.targetHandle = "context-input" THEN "Context"
        ELSE IF ns[t].data.type = "llmNode"
                /\ connection.targetHandle = "query-input" THEN "Query"
        ELSE IF ns[s].data.type = "llmNode"
                /\ connection.sourceHandle = "llm-output" THEN "Answer"
        ELSE IF ns[t].data.type = "outputNode" THEN "Final Output"
        ELSE "Connection"

\* reactflow's connectionExists: same endpoints and the same (or no) handles
connectionExists(edge, es) ==
    \E i \in 1..Len(es) :
        /\ es[i].source = edge.source
        /\ es[i].target = edge.target
        /\ \/ es[i].sourceHandle = edge.sourceHandle
           \/ ~Truthy(es[i].sourceHandle) /\ ~Truthy(edge.sourceHandle)
        /\ \/ es[i].targetHandle = edge.targetHandle
           \/ ~Truthy(es[i].targetHandle) /\ ~Truthy(edge.targetHandle)

\* reactflow's addEdge: refuses an edge without source or target, or one that
\* repeats a connection; it does not look at the node list
addEdge(edgeParams, es) ==
    IF ~Truthy(edgeParams.source) \/ ~Truthy(edgeParams.target) THEN es
    ELSE IF connectionExists(edgeParams, es) THEN es
    ELSE Append(es, edgeParams)

\* the edge onConnect builds from a connection
newEdge(connection, ns, t) ==
    [source |-> connection.source,
     target |-> connection.target,
     sourceHandle |-> connection.sourceHandle,
     targetHandle |-> connection.targetHandle,
     id |-> EdgeId(connection.source, connection.target, t),
     type |-> "smoothstep",
     data |-> [name |-> determineEdgeName(connection, ns)]]

connectedEdges(connection, ns, es, t) == addEdge(newEdge(connection, ns, t), es)

onConnect(connection) ==
    /\ edges' = connectedEdges(connection, nodes, edges, now)
    /\ last' = [op |-> "onConnect", source |-> connection.source,
                target |-> connection.target]
    /\ UNCHANGED <<nodes, selectedWorkflowId, now, pageVars>>

\* time passes: Date.now() returns a later value
Tick ==
    /\ now < MaxClock
    /\ now' = now + 1
    /\ last' = [op |-> "tick"]
    /\ UNCHANGED <<storeVars, pageVars>>

----------------------------------------------------------------------------
(* Conversion to the wire shape, and the credentials *)

\* some of the keys every object literal inherits from Object.prototype
ObjectPrototypeKeys == {"constructor", "toString", "valueOf", "hasOwnProperty"}

\* object[key] for an object literal: its own value, else the function it
\* inherits under that key, else undefined
Lookup(object, key) ==
    IF key \in DOMAIN object THEN object[key]
    ELSE IF key \in ObjectPrototypeKeys THEN "<function " \o key \o ">"
    ELSE Undefined

\* the typeMapping of convertNodeType
frontendToBackend ==
    [userQueryNode |-> "userQuery", outputNode |-> "output", llmNode |-> "llmEngine",
     knowledgeBaseNode |-> "knowledgeBase", webSearchNode |-> "webSearch"]

\* the typeMapping of convertBackendNodeType
backendToFrontend ==
    [userQuery |-> "userQueryNode", output |-> "outputNode", llmEngine |-> "llmNode",
     knowledgeBase |-> "knowledgeBaseNode", webSearch |-> "webSearchNode"]

\* return typeMapping[type] || type
convertNodeType(type) == Or(Lookup(frontendToBackend, type), type)

convertBackendNodeType(type) == Or(Lookup(backendToFrontend, type), type)

\* the entry nodesToDict makes of one node
\* the value of the map for a node, were the config spread as it is
nodeToDictWithFile(node) ==
    [id |-> node.id,
     type |-> convertNodeType(Or(node.type, node.data.type)),
     position |-> node.position,
     data |-> Spread(node.data,
                [type |-> convertNodeType(Or(node.data.type, node.type)),
                 config |-> node.data.config])]

nodeToDict(node) ==
    [id |-> node.id,
     type |-> convertNodeType(Or(node.type, node.data.type)),
     position |-> node.position,
     data |-> Spread(node.data,
                [type |-> convertNodeType(Or(node.data.type, node.type)),
                 config |-> Spread(node.data.config, [uploadedFile |-> Undefined])])]

\* nodesDict[node.id] = ... for each node in turn: a later node with the same id
\* overwrites the earlier one
nodesToDict(ns) ==
    [id \in NodeIds(ns) |->
        nodeToDict(ns[CHOOSE i \in 1..Len(ns) :
                        ns[i].id = id /\ \A j \in (i + 1)..Len(ns) : ns[j].id # id])]

edgeToDict(edge) ==
    [id |-> edge.id,
     source |-> edge.source,
     target |-> edge.target,
     sourceHandle |-> Or(edge.sourceHandle, Null),
     targetHandle |-> Or(edge.targetHandle, Null),
     type |-> Or(edge.type, "smoothstep"),
     data |-> edge.data]

edgesToDict(es) ==
    [id \in {es[i].id : i \in 1..Len(es)} |->
        edgeToDict(es[CHOOSE i \in 1..Len(es) :
                        es[i].id = id /\ \A j \in (i + 1)..Len(es) : es[j].id # id])]

\* A map of the wire shape is the sequence of its values in the order of the
\* body, each under the key of its id: Object.values gives them in that order.

\* the node dictToNodes makes of one value of the map
dictToNode(node) ==
    [id |-> node.id,
     type |-> convertBackendNodeType(node.type),
     position |-> IF "position" \in DOMAIN node THEN node.position
                  ELSE [x |-> 0, y |-> 0],
     data |-> Spread(node.data,
                [type |-> convertBackendNodeType(Or(node.type, Get(node.data, "type")))])]

dictToNodes(nodesDict) == [i \in 1..Len(nodesDict) |-> dictToNode(nodesDict[i])]

\* an edge type kept only when it is the default: what dictToEdges would do if
\* it set type: 'smoothstep' on every edge
defaultEdgeType(type) == "smoothstep"

\* edge.type || 'smoothstep'
edgeTypeOrDefault(type) == Or(type, "smoothstep")

\* the edge dictToEdges makes of one value of the map
dictToEdge(edge) ==
    [id |-> edge.id,
     source |-> edge.source,
     target |-> edge.target,
     sourceHandle |-> Get(edge, "sourceHandle"),
     targetHandle |-> Get(edge, "targetHandle"),
     type |-> edgeTypeOrDefault(Get(edge, "type")),
     animated |-> TRUE,
     style |-> [stroke |-> "#FF6B6B", strokeWidth |-> 2],
     data |-> IF "data" \in DOMAIN edge THEN edge.data ELSE EmptyObject]

dictToEdges(edgesDict) == [i \in 1..Len(edgesDict) |-> dictToEdge(edgesDict[i])]

\* dictToNodes(data.nodes) and dictToEdges(data.edges) of a response body: a
\* body without the map has it undefined, which gives the empty list
loadedNodes(data) == IF "nodes" \in DOMAIN data THEN dictToNodes(data.nodes) ELSE <<>>

loadedEdges(data) == IF "edges" \in DOMAIN data THEN dictToEdges(data.edges) ELSE <<>>

\* the body of extractApiKeys' forEach for one node
apiKeysAfter(apiKeys, node) ==
    LET config == node.data.config
        isType(type) == node.data.type = type \/ node.type = type
        k1 == IF isType("llmNode") /\ Truthy(Get(config, "apiKey"))
              THEN [apiKeys EXCEPT !.llm = config.apiKey] ELSE apiKeys
        k2 == IF isType("knowledgeBaseNode") /\ Truthy(Get(config, "apiKey"))
              THEN [k1 EXCEPT !.knowledge = config.apiKey] ELSE k1
    IN  IF \/ isType("llmNode") /\ Truthy(Get(config, "serpApiKey"))
           \/ isType("webSearchNode") /\ Truthy(Get(config, "serpApiKey"))
        THEN [k2 EXCEPT !.websearch = config.serpApiKey] ELSE k2

RECURSIVE collectApiKeys(_, _, _)
collectApiKeys(ns, i, apiKeys) ==
    IF i > Len(ns) THEN apiKeys
    ELSE collectApiKeys(ns, i + 1, apiKeysAfter(apiKeys, ns[i]))

\* the credentials as collected, the fields without a value among them
collectedApiKeys(apiKeys) == apiKeys

\* "Only include keys that have values"
filteredApiKeys(apiKeys) ==
    [k \in {k \in DOMAIN apiKeys : Truthy(apiKeys[k])} |-> apiKeys[k]]

extractApiKeys(ns) ==
    filteredApiKeys(collectApiKeys(ns, 1, [llm |-> "", knowledge |-> "", websearch |-> ""]))

\* api_keys: Object.keys(apiKeys).length > 0 ? apiKeys : null
payloadApiKeys(apiKeys) == IF DOMAIN apiKeys # {} THEN apiKeys ELSE NullObject

\* the payload saveWorkflow builds from the store's state
\* a payload with the id alone and the maps of no graph
payloadWithoutGraph(workflowId, ns, es) ==
    [stack_id |-> workflowId,
     nodes |-> nodesToDict(<<>>),
     edges |-> edgesToDict(<<>>),
     api_keys |-> NullObject]

savePayload(workflowId, ns, es) ==
    [stack_id |-> workflowId,
     nodes |-> nodesToDict(ns),
     edges |-> edgesToDict(es),
     api_keys |-> payloadApiKeys(extractApiKeys(ns))]

\* JSON.stringify leaves out the keys whose value is undefined
stringifyObject(object) ==
    [k \in {k \in DOMAIN object : object[k] # Undefined} |-> object[k]]

\* JSON.stringify(payload): the body of the save request
stringifyPayload(payload) ==
    [payload EXCEPT !.nodes =
        [id \in DOMAIN payload.nodes |->
            [payload.nodes[id] EXCEPT !.data.config = stringifyObject(@)]]]

----------------------------------------------------------------------------
(* The remote service's answers *)

\* the ids the route gives the page, and those the service answers with
WorkflowIds == {"wf1"}
ServiceIds == {"wf1", "wf2"}

\* fetch rejects; or the status is not ok (with an empty body text); or the
\* body parses to an object with a stack_id; or the body parses to a falsy value
SaveResponses ==
    {[kind |-> "network"], [kind |-> "status", status |-> "500", text |-> ""],
     [kind |-> "falsy"]}
    \cup {[kind |-> "ok", stack_id |-> id] : id \in ServiceIds}

ExecuteResponses ==
    {[kind |-> "network"], [kind |-> "status", status |-> "500", text |-> ""]}
    \cup {[kind |-> "ok", result |-> r] : r \in {"", "r1"}}

----------------------------------------------------------------------------
(* saveWorkflow *)

\* what the awaited saveWorkflow gives its caller once the response is there:
\* the parsed result, or the error it throws
saveWorkflowOutcome(response) ==
    CASE response.kind = "network" ->
            [thrown |-> TRUE, error |-> "Failed to fetch"]
      [] response.kind = "status" ->
            [thrown |-> TRUE,
             error |-> "Failed to save workflow: " \o response.status
                          \o " " \o response.text]
      [] response.kind = "falsy" ->
            [thrown |-> FALSE, truthy |-> FALSE, stack_id |-> Undefined]
      [] OTHER ->
            [thrown |-> FALSE, truthy |-> TRUE, stack_id |-> response.stack_id]

\* the selectedWorkflowId saveWorkflow leaves: the service's id when it differs
savedWorkflowId(outcome, workflowId, current) ==
    IF ~outcome.thrown /\ Truthy(outcome.stack_id) /\ outcome.stack_id # workflowId
    THEN outcome.stack_id
    ELSE current

\* a saveWorkflow that takes any workflow id: what it would do without its
\* test of the id
workflowIdNeverMissing(workflowId) == FALSE

\* saveWorkflow: if (!workflowId) throw new Error('No workflow ID available')
workflowIdMissing(workflowId) == ~Truthy(workflowId)

NoWorkflowId == "No workflow ID available"

----------------------------------------------------------------------------
(* handleSaveWorkflow: the save button and Ctrl+S *)

saveButtonEnabled == ~isSaving /\ ~isExecuting /\ Len(nodes) # 0

\* handleSaveWorkflow up to the await of the save request
handleSaveWorkflow ==
    /\ IF workflowIdMissing(selectedWorkflowId)
       THEN /\ executionResult' =
                  [success |-> FALSE,
                   message |-> "Failed to save workflow. Please try again.",
                   type |-> "save", error |-> NoWorkflowId]
            /\ isSaving' = FALSE
            /\ saves' = saves
       ELSE /\ saves' = Append(saves,
                  [workflowId |-> selectedWorkflowId,
                   request |-> stringifyPayload(
                                  savePayload(selectedWorkflowId, nodes, edges))])
            /\ isSaving' = TRUE
            /\ executionResult' = executionResult
    /\ last' = [op |-> "handleSaveWorkflow"]
    /\ UNCHANGED <<storeVars, now, isExecuting, run, loads, uploads>>

clickSave == saveButtonEnabled /\ handleSaveWorkflow

\* isSaving, were it set to false on a result only and not in a finally
savingAfterResult(outcome) == outcome.thrown

\* isSaving after the awaited save: the finally of handleSaveWorkflow sets it
\* to false whatever the outcome
savingAfter(outcome) == FALSE

\* handleSaveWorkflow from the response of its request on
saveSettled(i, response) ==
    LET outcome == saveWorkflowOutcome(response)
    IN  /\ i \in 1..Len(saves)
        /\ selectedWorkflowId' =
              savedWorkflowId(outcome, saves[i].workflowId, selectedWorkflowId)
        /\ executionResult' =
              IF outcome.thrown
              THEN [success |-> FALSE,
                    message |-> "Failed to save workflow. Please try again.",
                    type |-> "save", error |-> outcome.error]
              ELSE IF outcome.truthy
              THEN [success |-> TRUE, message |-> "Workflow saved successfully!",
                    type |-> "save"]
              ELSE executionResult
        /\ isSaving' = savingAfter(outcome)
        /\ saves' = SubSeq(saves, 1, i - 1) \o SubSeq(saves, i + 1, Len(saves))
        /\ last' = [op |-> "saveSettled"]
        /\ UNCHANGED <<nodes, edges, now, isExecuting, run, loads, uploads>>

----------------------------------------------------------------------------
(* handleRunWorkflow and saveAndExecuteWorkflow *)

\* a validation that stops after the check for the LLM node: what
\* handleRunWorkflow would do without its check of the API key
validationWithoutApiKey(ns) ==
    LET q == findByType(ns, "userQueryNode")
        o == findByType(ns, "outputNode")
        l == findByType(ns, "llmNode")
    IN  IF q = 0 THEN "Please add a User Query node to your workflow"
        ELSE IF \/ ~Truthy(Or(Get(ns[q].data.config, "query"), ""))
                \/ Or(Get(ns[q].data.config, "query"), "") = QueryPlaceholder
             THEN "Please enter a query in the User Query node"
        ELSE IF o = 0 THEN "Please add an Output node to your workflow"
        ELSE IF l = 0 THEN "Please add an LLM node to your workflow"
        ELSE Null

\* the validation of handleRunWorkflow: the message of the first check that
\* fails, Null when none does
validationError(ns) ==
    LET q == findByType(ns, "userQueryNode")
        o == findByType(ns, "outputNode")
        l == findByType(ns, "llmNode")
    IN  IF q = 0 THEN "Please add a User Query node to your workflow"
        ELSE IF \/ ~Truthy(Or(Get(ns[q].data.config, "query"), ""))
                \/ Or(Get(ns[q].data.config, "query"), "") = QueryPlaceholder
             THEN "Please enter a query in the User Query node"
        ELSE IF o = 0 THEN "Please add an Output node to your workflow"
        ELSE IF l = 0 THEN "Please add an LLM node to your workflow"
        ELSE IF ~Truthy(Get(ns[l].data.config, "apiKey"))
             THEN "Please configure an API key in your LLM node"
        ELSE Null

\* the query handleRunWorkflow passes on
userQueryOf(ns) ==
    LET q == findByType(ns, "userQueryNode")
    IN  Or(Get(ns[q].data.config, "query"), "")

NoRun ==
    [pc |-> "idle", state |-> NullObject, userQuery |-> "",
     saveRequest |-> NullObject, saved |-> FALSE,
     executeRequest |-> NullObject, result |-> NullObject]

\* a failure result without the error's message
resultWithoutError(error) ==
    [success |-> FALSE, error |-> Undefined,
     message |-> "Failed to save and execute workflow"]

\* what saveAndExecuteWorkflow returns from its catch
failureResult(error) ==
    [success |-> FALSE, error |-> error,
     message |-> "Failed to save and execute workflow: " \o error]

successResult ==
    [success |-> TRUE, error |-> Undefined,
     message |-> "Workflow saved and executed successfully"]

\* setExecutionResult of handleRunWorkflow for what saveAndExecuteWorkflow returned
executeResultOf(result) ==
    [success |-> result.success, message |-> result.message,
     type |-> "execute", error |-> result.error]

\* the state saveAndExecuteWorkflow reads once, with get(), when it starts:
\* the workflow id, and the output node it will find in these nodes
stateOf(workflowId, ns) ==
    [selectedWorkflowId |-> workflowId,
     outputNodeId |->
        LET o == findByType(ns, "outputNode")
        IN  IF o = 0 THEN Undefined ELSE ns[o].id]

runButtonEnabled == ~isExecuting /\ ~isSaving /\ Len(nodes) # 0

\* handleRunWorkflow up to the await of the save request, or to its end when
\* the validation or saveWorkflow throws before any request
handleRunWorkflow ==
    /\ runButtonEnabled
    /\ LET error == validationError(nodes)
       IN  IF error # Null
           THEN /\ executionResult' = [success |-> FALSE, message |-> error,
                                       type |-> "execute", error |-> error]
                /\ isExecuting' = FALSE
                /\ run' = NoRun
           ELSE IF workflowIdMissing(selectedWorkflowId)
           THEN /\ run' = [NoRun EXCEPT
                              !.pc = "done",
                              !.state = stateOf(selectedWorkflowId, nodes),
                              !.userQuery = userQueryOf(nodes),
                              !.result = failureResult(NoWorkflowId)]
                /\ executionResult' =
                      executeResultOf(failureResult(NoWorkflowId))
                /\ isExecuting' = FALSE
           ELSE /\ run' = [NoRun EXCEPT
                              !.pc = "saving",
                              !.state = stateOf(selectedWorkflowId, nodes),
                              !.userQuery = userQueryOf(nodes),
                              !.saveRequest = stringifyPayload(
                                  savePayload(selectedWorkflowId, nodes, edges))]
                /\ executionResult' = NullObject
                /\ isExecuting' = TRUE
    /\ last' = [op |-> "handleRunWorkflow"]
    /\ UNCHANGED <<storeVars, now, isSaving, saves, loads, uploads>>

\* going on whatever the save gave: what saveAndExecuteWorkflow would do if it
\* did not await and test the save's result
executesRegardless(outcome) == TRUE

\* whether saveAndExecuteWorkflow goes on to execute after the awaited save
executesAfter(outcome) == ~outcome.thrown /\ outcome.truthy

\* the error saveAndExecuteWorkflow catches when the save did not succeed
saveError(outcome) ==
    IF outcome.thrown THEN outcome.error ELSE "Failed to save workflow"

\* the run from the response of its save request on: to the execute request,
\* or to the failure result
runSaveSettled(response) ==
    LET outcome == saveWorkflowOutcome(response)
        workflowId == run.state.selectedWorkflowId
    IN  /\ run.pc = "saving"
        /\ selectedWorkflowId' =
              savedWorkflowId(outcome, run.saveRequest.stack_id, selectedWorkflowId)
        /\ IF executesAfter(outcome)
           THEN /\ run' = [run EXCEPT
                              !.pc = "executing",
                              !.saveRequest = NullObject,
                              !.saved = ~outcome.thrown /\ outcome.truthy,
                              !.executeRequest =
                                  [stack_id |-> workflowId, query |-> run.userQuery]]
                /\ UNCHANGED <<executionResult, isExecuting>>
           ELSE /\ run' = [run EXCEPT !.pc = "done",
                                      !.saveRequest = NullObject,
                                      !.result = failureResult(saveError(outcome))]
                /\ executionResult' =
                      executeResultOf(failureResult(saveError(outcome)))
                /\ isExecuting' = FALSE
        /\ last' = [op |-> "runSaveSettled"]
        /\ UNCHANGED <<nodes, edges, now, isSaving, saves, loads, uploads>>

\* the run from the response of its execute request on
runExecuteSettled(response) ==
    /\ run.pc = "executing"
    /\ IF response.kind = "ok"
       THEN /\ nodes' =
                  IF Truthy(response.result) /\ run.state.outputNodeId # Undefined
                  THEN updatedNodes(nodes, run.state.outputNodeId,
                                    [output |-> response.result])
                  ELSE nodes
            /\ run' = [run EXCEPT !.pc = "done", !.result = successResult]
            /\ executionResult' = executeResultOf(successResult)
       ELSE LET error == IF response.kind = "network" THEN "Failed to fetch"
                         ELSE "Failed to execute workflow: " \o response.status
                                 \o " " \o response.text
            IN  /\ nodes' = nodes
                /\ run' = [run EXCEPT !.pc = "done", !.result = failureResult(error)]
                /\ executionResult' = executeResultOf(failureResult(error))
    /\ isExecuting' = FALSE
    /\ last' = [op |-> "runExecuteSettled", response |-> response]
    /\ UNCHANGED <<edges, selectedWorkflowId, now, isSaving, saves, loads, uploads>>

\* the page's effect on the route's workflow id
setSelectedWorkflowId(id) ==
    /\ selectedWorkflowId' = id
    /\ last' = [op |-> "setSelectedWorkflowId"]
    /\ UNCHANGED <<nodes, edges, now, pageVars>>

----------------------------------------------------------------------------
(* KnowledgeBaseNode: the upload of a document. The file holds the component *)
(* twice, and the two differ in the stack id of the upload.                  *)

\* the File the user picks in the knowledge base's file input
File == "<File notes.pdf>"

\* KnowledgeBaseNode handleFileUpload, before the upload: the picked file and
\* its name
fileChange == [uploadedFileName |-> "notes.pdf", uploadedFile |-> File]

\* strings that match the pattern of isValidUUID, among those of the model
ValidUUIDs ==
    {"123e4567-e89b-42d3-a456-426614174000", "9b2e4f60-1c3d-4a5b-8c7d-0e1f2a3b4c5d"}

\* isValidUUID: 8-4-4-4-12 hexadecimal digits with a version 1 to 5 and a
\* variant 8, 9, a or b
isValidUUID(str) == str \in ValidUUIDs

\* what generateUUID may return
GeneratedUUIDs == {"9b2e4f60-1c3d-4a5b-8c7d-0e1f2a3b4c5d"}

\* handleFileUpload of the first component: if (!stackId || !isValidUUID(stackId))
stackIdRejected(stackId) == ~Truthy(stackId) \/ ~isValidUUID(stackId)

\* the upload request of a node's file
uploadRequest(nodeId, stackId, config) ==
    [nodeId |-> nodeId, stack_id |-> stackId,
     api_key |-> Or(Get(config, "apiKey"), Undefined),
     embedding_model |-> Get(config, "embeddingModel")]

\* handleFileUpload of the first component, up to the await of the upload:
\* the stack id is the store's selectedWorkflowId
handleFileUpload(nodeId) ==
    /\ IF stackIdRejected(selectedWorkflowId)
       THEN UNCHANGED <<nodes, uploads>>
       ELSE /\ nodes' = updatedNodes(nodes, nodeId, [uploadedFileName |-> "notes.pdf"])
            /\ uploads' = Append(uploads,
                  uploadRequest(nodeId, selectedWorkflowId,
                                nodes[findById(nodes, nodeId)].data.config))
    /\ last' = [op |-> "handleFileUpload", id |-> nodeId, stackId |-> selectedWorkflowId]
    /\ UNCHANGED <<edges, selectedWorkflowId, now, isExecuting, isSaving,
                   executionResult, run, saves, loads>>

\* getValidStackId of the second component: the config's stack id, the
\* route's workflow id or the node's id when one is a UUID, a new UUID if not
getValidStackId(config, workflowId, nodeId) ==
    IF Truthy(Get(config, "stackId")) /\ isValidUUID(Get(config, "stackId"))
    THEN {Get(config, "stackId")}
    ELSE IF Truthy(workflowId) /\ isValidUUID(workflowId) THEN {workflowId}
    ELSE IF isValidUUID(nodeId) THEN {nodeId}
    ELSE GeneratedUUIDs

\* the config of the second component: stackId is the route's workflow id
\* unless the node's config has one
componentConfig(config, workflowId) ==
    Spread([embeddingModel |-> "text-embedding-3-large", apiKey |-> "",
            uploadedFileName |-> "", uploadedFile |-> Null, stackId |-> workflowId],
           config)

\* handleFileUpload of the second component, up to the await of the upload
handleFileUploadWithStackId(nodeId, workflowId, stackId) ==
    LET config == componentConfig(nodes[findById(nodes, nodeId)].data.config, workflowId)
    IN  /\ stackId = Or(config.stackId, stackId)
        /\ IF ~isValidUUID(stackId)
           THEN UNCHANGED <<nodes, uploads>>
           ELSE /\ nodes' = updatedNodes(nodes, nodeId, fileChange)
                /\ uploads' = Append(uploads, uploadRequest(nodeId, stackId, config))
        /\ last' = [op |-> "handleFileUpload", id |-> nodeId, stackId |-> stackId]
        /\ UNCHANGED <<edges, selectedWorkflowId, now, isExecuting, isSaving,
                       executionResult, run, saves, loads>>

\* the route's workflow id: the page's effect has set selectedWorkflowId to it
\* when there is one
routeWorkflowId == IF Truthy(selectedWorkflowId) THEN selectedWorkflowId ELSE Undefined

\* handleFileUpload from the response of the upload on: the document's id, or
\* the reset of the file's fields in the catch
uploadSettled(i, response) ==
    /\ i \in 1..Len(uploads)
    /\ nodes' =
          IF response.kind = "ok"
          THEN updatedNodes(nodes, uploads[i].nodeId,
                            [uploadedFileName |-> "notes.pdf",
                             documentId |-> response.id,
                             uploadedAt |-> "T" \o ToString(now)])
          ELSE updatedNodes(nodes, uploads[i].nodeId,
                            [uploadedFileName |-> Null, documentId |-> Null,
                             uploadedAt |-> Null])
    /\ uploads' = SubSeq(uploads, 1, i - 1) \o SubSeq(uploads, i + 1, Len(uploads))
    /\ last' = [op |-> "uploadSettled", id |-> uploads[i].nodeId]
    /\ UNCHANGED <<edges, selectedWorkflowId, now, isExecuting, isSaving,
                   executionResult, run, saves, loads>>

----------------------------------------------------------------------------
(* loadWorkflow *)

\* workflowId.startsWith('temp_'), on the ids of the model
startsWithTemp(workflowId) == workflowId \in {"temp_1"}

\* !workflowId || workflowId === 'new' || workflowId.startsWith('temp_')
skipsLoading(workflowId) ==
    ~Truthy(workflowId) \/ workflowId = "new" \/ startsWithTemp(workflowId)

\* loadWorkflow up to the await of its request, or to its end for an id that
\* is not loaded
loadWorkflow(workflowId) ==
    /\ IF skipsLoading(workflowId)
       THEN /\ selectedWorkflowId' = workflowId
            /\ loads' = loads
       ELSE \* history: every pending load knows the id requested last
            /\ loads' = Append([i \in 1..Len(loads) |->
                                  [loads[i] EXCEPT !.latest = workflowId]],
                               [workflowId |-> workflowId, latest |-> workflowId])
            /\ selectedWorkflowId' = selectedWorkflowId
    /\ last' = [op |-> "loadWorkflow", id |-> workflowId]
    /\ UNCHANGED <<nodes, edges, now, isExecuting, isSaving, executionResult, run, saves, uploads>>

\* the graph as it is under the requested id: what loadWorkflow would leave if
\* it set only selectedWorkflowId on an error
keptWorkflow(workflowId) ==
    [selectedWorkflowId |-> workflowId, nodes |-> nodes, edges |-> edges]

\* the state loadWorkflow sets on a 404 and in its catch: the empty workflow
\* under the requested id
emptyWorkflow(workflowId) ==
    [selectedWorkflowId |-> workflowId, nodes |-> <<>>, edges |-> <<>>]

\* loadWorkflow from the response of its request on
loadSettled(i, response) ==
    /\ i \in 1..Len(loads)
    /\ IF response.kind = "ok"
       THEN /\ selectedWorkflowId' =
                  Or(Get(response.data, "stack_id"), loads[i].workflowId)
            /\ nodes' = loadedNodes(response.data)
            /\ edges' = loadedEdges(response.data)
       ELSE \* 404, and the catch of every error
            /\ selectedWorkflowId' = emptyWorkflow(loads[i].workflowId).selectedWorkflowId
            /\ nodes' = emptyWorkflow(loads[i].workflowId).nodes
            /\ edges' = emptyWorkflow(loads[i].workflowId).edges
    /\ loads' = SubSeq(loads, 1, i - 1) \o SubSeq(loads, i + 1, Len(loads))
    /\ last' = [op |-> "loadSettled", id |-> loads[i].workflowId,
                latest |-> loads[i].latest,
                response |-> response,
                returned |-> response.kind = "ok"
                             \/ (response.kind = "status" /\ response.status = "404")]
    /\ UNCHANGED <<now, isExecuting, isSaving, executionResult, run, saves, uploads>>

----------------------------------------------------------------------------
(* The inputs of the graph store's operations *)

\* the handle a node of a kind offers as a connection's source
sourceHandles(type) ==
    CASE type = "userQueryNode" -> {"query-output"}
      [] type = "llmNode" -> {"llm-output"}
      [] type = "knowledgeBaseNode" -> {"kb-output"}
      [] type = "webSearchNode" -> {"search-output"}
      [] OTHER -> {Null}

\* the handles a node of a kind offers as a connection's target
targetHandles(type) ==
    CASE type = "llmNode" -> {"context-input", "query-input"}
      [] type = "knowledgeBaseNode" -> {"kb-input"}
      [] type = "outputNode" -> {"output-input"}
      [] type = "webSearchNode" -> {"search-input"}
      [] OTHER -> {Null}

\* the connections the handles of nodes of the given kinds allow, between the
\* ids a drop at time t gives, whether or not such a node is in the list
Connections(kinds, t) ==
    UNION {{[source |-> NodeId(k[1], t), target |-> NodeId(k[2], t),
             sourceHandle |-> sh, targetHandle |-> th] :
                sh \in sourceHandles(k[1]), th \in targetHandles(k[2])} :
           k \in kinds \X kinds}

\* what the node components pass to updateNodeConfig: the edited field
\* (UserQueryNode, LLMNode and WebSearchNode handleConfigChange)
configChanges(type) ==
    CASE type = "userQueryNode" -> {[query |-> v] : v \in {"", "q1"}}
      [] type = "llmNode" -> {[apiKey |-> "k1"], [serpApiKey |-> "s1"]}
      [] type = "webSearchNode" -> {[serpApiKey |-> "s2"]}
      [] OTHER -> {}

\* KnowledgeBaseNode handleConfigChange: the node's whole config with the
\* edited field
knowledgeBaseChange(node, key, value) ==
    Spread(node.data.config, [k \in {key} |-> value])

\* every handle id of the node components, and none
SourceHandleIds == {"query-output", "llm-output", "kb-output", "search-output", Null}
TargetHandleIds ==
    {"query-input", "context-input", "kb-input", "output-input", "search-input", Null}

\* the connections between two nodes of a list, with every combination of
\* handle ids
AnyConnections(ns) ==
    {[source |-> s, target |-> t, sourceHandle |-> sh, targetHandle |-> th] :
        s \in NodeIds(ns), t \in NodeIds(ns),
        sh \in SourceHandleIds, th \in TargetHandleIds}

\* the service's type names, and others a body may hold
ServiceTypes == {"userQuery", "output", "llmEngine", "knowledgeBase", "webSearch"}
WireTypes == ServiceTypes \cup {"custom", "constructor"}

\* a node of the wire shape
wireNode(id, type) ==
    [id |-> id, type |-> type, position |-> [x |-> 10, y |-> 20],
     data |-> [label |-> "Node", name |-> "Node", type |-> type,
               config |-> [model |-> "m1", documentId |-> Null]]]

\* edges of the wire shape between n1 and n2: with the default type and no
\* handles, with another type and handles, and one with the ids alone
WireEdges ==
    {[id |-> "e1", source |-> "n1", target |-> "n2", sourceHandle |-> Null,
      targetHandle |-> Null, type |-> "smoothstep", data |-> [name |-> "Connection"]],
     [id |-> "e1", source |-> "n1", target |-> "n2", sourceHandle |-> "query-output",
      targetHandle |-> "query-input", type |-> "step", data |-> [name |-> "Query"]],
     [id |-> "e1", source |-> "n1", target |-> "n2"]}

\* the bodies of a load's response: two nodes and at most one edge under the
\* id asked for, an empty graph under another id, and bodies without the maps
WireGraphs ==
    {[stack_id |-> "wf1", nodes |-> <<wireNode("n1", t), wireNode("n2", "llmEngine")>>,
      edges |-> es] : t \in WireTypes, es \in {<<>>} \cup {<<e>> : e \in WireEdges}}
    \cup {[stack_id |-> "wf2", nodes |-> <<>>, edges |-> <<>>],
          [stack_id |-> "wf1"], [name |-> "w"]}

\* fetch rejects; or the status is 404, or another that is not ok; or the body
\* does not parse; or it parses to a graph
LoadResponses ==
    {[kind |-> "network"], [kind |-> "status", status |-> "404"],
     [kind |-> "status", status |-> "500"], [kind |-> "unparsable"]}
    \cup {[kind |-> "ok", data |-> d] : d \in WireGraphs}

\* the ids loadWorkflow is called with
LoadIds == {"new", "temp_1", "wf1", "wf2"}

Init ==
    /\ nodes = <<>>
    /\ edges = <<>>
    /\ selectedWorkflowId = Null
    /\ now = 0
    /\ isExecuting = FALSE
    /\ isSaving = FALSE
    /\ executionResult = NullObject
    /\ run = NoRun
    /\ saves = <<>>
    /\ loads = <<>>
    /\ uploads = <<>>
    /\ last = [op |-> "init"]

----------------------------------------------------------------------------
(* The graph store under its callers: drops, deletions, connections, edits.  *)
(* Date.now() does not advance here, so two drops of one kind give one id.   *)

GraphKinds == {"userQueryNode", "llmNode"}

Next ==
    \/ \E type \in GraphKinds : Len(nodes) < MaxNodes /\ onDrop(type)
    \/ \E type \in GraphKinds : removeNode(NodeId(type, now))
    \/ \E i \in 1..Len(edges) : removeEdge(edges[i].id)
    \/ \E c \in Connections(GraphKinds, now) : Len(edges) < MaxEdges /\ onConnect(c)
    \/ \E type \in GraphKinds :
          \E c \in configChanges(type) : updateNodeConfig(NodeId(type, now), c)

Spec == Init /\ [][Next]_vars

\* the edges that touch a node id
touching(es, nodeId) ==
    {i \in 1..Len(es) : es[i].source = nodeId \/ es[i].target = nodeId}

\* C1: after any sequence of addNode, removeNode and onConnect calls from the
\* empty graph, the source and the target of every edge of the store are ids
\* of nodes of the node list: no edge dangles.
NoDanglingEdge ==
    \A i \in 1..Len(edges) :
        edges[i].source \in NodeIds(nodes) /\ edges[i].target \in NodeIds(nodes)

\* C2: a connection whose source or target is not the id of a node of the
\* store is rejected: the edge list after onConnect is the edge list before.
ConnectToAbsentRejected ==
    [][(/\ last'.op = "onConnect"
        /\ \/ last'.source \notin NodeIds(nodes)
           \/ last'.target \notin NodeIds(nodes))
       => edges' = edges]_vars

\* C3: removeNode(id) removes the node with that id and the k edges that touch
\* it, and nothing else: the node count drops by 1 and the edge count by k,
\* the other nodes and edges stay as they were, in their order; when no node
\* has the id the node list is unchanged.
RemoveNodeRemovesOne ==
    [][last'.op = "removeNode" =>
        LET id == last'.id
            k == Cardinality(touching(edges, id))
        IN  /\ id \in NodeIds(nodes) => Len(nodes') = Len(nodes) - 1
            /\ id \notin NodeIds(nodes) => nodes' = nodes
            /\ Len(edges') = Len(edges) - k
            /\ id \notin NodeIds(nodes')
            /\ touching(edges', id) = {}
            /\ nodes' = SelectSeq(nodes, LAMBDA n : n.id # id)
            /\ edges' = SelectSeq(edges, LAMBDA e : e.source # id /\ e.target # id)
            /\ selectedWorkflowId' = selectedWorkflowId]_vars

\* C4: updateNodeConfig(id, partial) merges: afterwards the config of the node
\* with that id maps every key of partial to the value given and every other
\* key it had to the value it had, and the rest of the node is as it was; the
\* other nodes, the edges and selectedWorkflowId are unchanged; when no node
\* has the id the node list is unchanged.
UpdateNodeConfigMerges ==
    [][last'.op = "updateNodeConfig" =>
        LET id == last'.id
            partial == last'.config
        IN  /\ Len(nodes') = Len(nodes)
            /\ \A i \in 1..Len(nodes) :
                  IF nodes[i].id = id
                  THEN LET old == nodes[i].data.config
                           new == nodes'[i].data.config
                       IN  /\ DOMAIN new = DOMAIN old \cup DOMAIN partial
                           /\ \A key \in DOMAIN partial : new[key] = partial[key]
                           /\ \A key \in DOMAIN old \ DOMAIN partial :
                                 new[key] = old[key]
                           /\ [nodes'[i] EXCEPT !.data.config = old] = nodes[i]
                  ELSE nodes'[i] = nodes[i]
            /\ id \notin NodeIds(nodes) => nodes' = nodes
            /\ edges' = edges
            /\ selectedWorkflowId' = selectedWorkflowId]_vars

\* a node has just been given one field of its config, it keeps the fields it
\* had besides, and another node is in the list
UpdateNodeConfigMerged ==
    /\ last.op = "updateNodeConfig"
    /\ \E i, j \in 1..Len(nodes) :
          /\ nodes[i].id = last.id
          /\ nodes[j].id # last.id
          /\ \A key \in DOMAIN last.config : nodes[i].data.config[key] = last.config[key]
          /\ DOMAIN nodes[i].data.config \ DOMAIN last.config # {}

\* C25: no two nodes of the node list have the same id, after any drops, with
\* or without time passing between them.
NodeIdsUnique ==
    \A i, j \in 1..Len(nodes) : nodes[i].id = nodes[j].id => i = j

----------------------------------------------------------------------------
(* Loading: the store holds what was dropped or loaded before, and           *)
(* loadWorkflow is called and answered                                       *)

MaxLoadNodes == 1
MaxLoads == 2

NextLoad ==
    \/ \E type \in GraphKinds :
          loads = <<>> /\ Len(nodes) < MaxLoadNodes /\ onDrop(type)
    \/ \E id \in LoadIds : Len(loads) < MaxLoads /\ loadWorkflow(id)
    \/ \E i \in 1..Len(loads) : \E r \in LoadResponses : loadSettled(i, r)

SpecLoad == Init /\ [][NextLoad]_vars

\* C14: loadWorkflow with the id "new", or with an id the service answers
\* with 404, ends without an error and leaves the empty node list, the empty
\* edge list and selectedWorkflowId = id, whatever the store held.
LoadNewOrNotFoundGivesEmpty ==
    [][(\/ last'.op = "loadWorkflow" /\ last'.id = "new"
        \/ /\ last'.op = "loadSettled"
           /\ last'.response.kind = "status"
           /\ last'.response.status = "404")
       => /\ nodes' = <<>>
          /\ edges' = <<>>
          /\ selectedWorkflowId' = last'.id]_vars

\* C15: a load that fails otherwise than with 404 (the fetch rejects, another
\* status that is not ok, a body that does not parse) returns to its caller
\* and leaves empty nodes, empty edges and selectedWorkflowId = id.
LoadFailureGivesEmpty ==
    [][(/\ last'.op = "loadSettled"
        /\ \/ last'.response.kind \in {"network", "unparsable"}
           \/ last'.response.kind = "status" /\ last'.response.status # "404")
       => /\ last'.returned = FALSE
          /\ nodes' = <<>>
          /\ edges' = <<>>
          /\ selectedWorkflowId' = last'.id]_vars

\* a load of wf2 has just failed with status 500 in a store that was bound to
\* another id: the store is empty under wf2
LoadFailedWith500 ==
    /\ last.op = "loadSettled"
    /\ last.response.kind = "status"
    /\ last.response.status = "500"
    /\ last.id = "wf2"
    /\ selectedWorkflowId = "wf2"
    /\ nodes = <<>>
    /\ edges = <<>>

\* C28: when loads of two workflow ids overlap, the store holds in the end
\* what the load requested last has left, in whatever order the responses
\* arrive: the response that arrives last, when it is of the load requested
\* first, changes nothing of the store.
LatestLoadWins ==
    [][(/\ last'.op = "loadSettled"
        /\ loads' = <<>>
        /\ last'.latest # last'.id)
       => /\ nodes' = nodes
          /\ edges' = edges
          /\ selectedWorkflowId' = selectedWorkflowId]_vars

\* the map of the wire shape as a function of its keys
wireMap(values) ==
    [id \in {values[i].id : i \in 1..Len(values)} |->
        values[CHOOSE i \in 1..Len(values) : values[i].id = id]]

\* the body JSON.stringify makes of the two maps of a store's graph
toWire(ns, es) ==
    stringifyPayload([nodes |-> nodesToDict(ns), edges |-> edgesToDict(es)])

\* a graph of the wire shape with every field the conversions read: distinct
\* ids, the service's type names on the node and in its data, a config object
\* without uploadedFile, and edges with handles, type and data
WellFormedWire(data) ==
    /\ {"nodes", "edges"} \subseteq DOMAIN data
    /\ \A i, j \in 1..Len(data.nodes) : data.nodes[i].id = data.nodes[j].id => i = j
    /\ \A i, j \in 1..Len(data.edges) : data.edges[i].id = data.edges[j].id => i = j
    /\ \A i \in 1..Len(data.nodes) :
          /\ DOMAIN data.nodes[i] = {"id", "type", "position", "data"}
          /\ data.nodes[i].type \in ServiceTypes
          /\ {"type", "config"} \subseteq DOMAIN data.nodes[i].data
          /\ data.nodes[i].data.type = data.nodes[i].type
          /\ "uploadedFile" \notin DOMAIN data.nodes[i].data.config
    /\ \A i \in 1..Len(data.edges) :
          /\ DOMAIN data.edges[i] =
                {"id", "source", "target", "sourceHandle", "targetHandle", "type", "data"}
          /\ data.edges[i].sourceHandle # ""
          /\ data.edges[i].targetHandle # ""
          /\ Truthy(data.edges[i].type)

\* C16: for a well-formed graph x of the wire shape, edges with a type other
\* than the default and with handles included, converting x to the store's
\* graph and back gives x: toWire(fromWire(x)) = x on both maps.
WireRoundTrip ==
    [][(/\ last'.op = "loadSettled"
        /\ last'.response.kind = "ok"
        /\ WellFormedWire(last'.response.data))
       => /\ toWire(nodes', edges').nodes = wireMap(last'.response.data.nodes)
          /\ toWire(nodes', edges').edges = wireMap(last'.response.data.edges)]_vars

\* a well-formed graph has been loaded whose edge has the type step and
\* handles, and the store's edge holds them
LoadedStepEdgeWithHandles ==
    /\ last.op = "loadSettled"
    /\ last.response.kind = "ok"
    /\ WellFormedWire(last.response.data)
    /\ Len(nodes) = 2
    /\ Len(edges) = 1
    /\ edges[1].type = "step"
    /\ edges[1].sourceHandle = "query-output"
    /\ edges[1].targetHandle = "query-input"

\* C17: the two type mappings are inverse to each other on the five kinds,
\* and a type name that is none of them passes through both unchanged: a
\* loaded node of a service type has the editor's kind, which maps back to
\* it, and a loaded node of any other type has that type, which maps to itself.
TypeMappingsInverseOrIdentity ==
    [][(/\ last'.op = "loadSettled"
        /\ last'.response.kind = "ok"
        /\ "nodes" \in DOMAIN last'.response.data)
       => \A i \in 1..Len(nodes') :
            LET type == last'.response.data.nodes[i].type
            IN  /\ convertNodeType(nodes'[i].type) = type
                /\ type \in ServiceTypes <=> nodes'[i].type \in DOMAIN frontendToBackend
                /\ type \notin ServiceTypes
                     => nodes'[i].type = type /\ convertBackendNodeType(type) = type]_vars

----------------------------------------------------------------------------
(* Saving: the user builds a graph and enters credentials until the first   *)
(* outcome of a save is shown, and saves with the button or with Ctrl+S      *)

MaxSaveNodes == 2
MaxSaveEdges == 1
MaxSaves == 1

SaveKinds == {"userQueryNode", "llmNode", "knowledgeBaseNode", "webSearchNode"}

NextSave ==
    \/ /\ saves = <<>>
       /\ executionResult = NullObject
       /\ \/ \E type \in SaveKinds : Len(nodes) < MaxSaveNodes /\ onDrop(type)
          \/ \E c \in Connections({"userQueryNode", "llmNode"}, now) :
                /\ Len(edges) < MaxSaveEdges
                /\ {c.source, c.target} \subseteq NodeIds(nodes)
                /\ onConnect(c)
          \/ \E i \in 1..Len(nodes) :
                \/ \E c \in configChanges(nodes[i].type) :
                      /\ nodes[i].type # "userQueryNode"
                      /\ updateNodeConfig(nodes[i].id, c)
                \/ /\ nodes[i].type = "knowledgeBaseNode"
                   /\ updateNodeConfig(nodes[i].id,
                                       knowledgeBaseChange(nodes[i], "apiKey", "k2"))
                \/ /\ nodes[i].type = "knowledgeBaseNode"
                   /\ updateNodeConfig(nodes[i].id, fileChange)
    \/ \E id \in WorkflowIds : setSelectedWorkflowId(id)
    \/ clickSave
    \/ Len(saves) < MaxSaves /\ handleSaveWorkflow
    \/ \E i \in 1..Len(saves) : \E r \in SaveResponses : saveSettled(i, r)

SpecSave == Init /\ [][NextSave]_vars

\* the config fields that hold a credential
CredentialKeys == {"apiKey", "serpApiKey"}

\* C5: the nodes and edges maps of a save request hold no credential value:
\* no node config in them has an apiKey or a serpApiKey with a value.
NoCredentialInGraphPayload ==
    \A i \in 1..Len(saves) :
        \A id \in DOMAIN saves[i].request.nodes :
            \A key \in CredentialKeys \cap DOMAIN saves[i].request.nodes[id].data.config :
                ~Truthy(saves[i].request.nodes[id].data.config[key])

\* the values the nodes of a list hold for a field of the secrets bundle
credentialValues(ns, field) ==
    {Get(ns[i].data.config, IF field = "websearch" THEN "serpApiKey" ELSE "apiKey") :
        i \in {i \in 1..Len(ns) :
                  CASE field = "llm" -> ns[i].type = "llmNode"
                    [] field = "knowledge" -> ns[i].type = "knowledgeBaseNode"
                    [] OTHER -> ns[i].type \in {"llmNode", "webSearchNode"}}}

\* C6: the api_keys of a save request has the field llm, knowledge or
\* websearch only with a non-empty value that a node config of that kind
\* holds, and it is null, not an object, when no node config holds one.
SecretsBundleOnlyNonEmpty ==
    \A i \in 1..Len(saves) :
        LET apiKeys == saves[i].request.api_keys
            fields == {"llm", "knowledge", "websearch"}
        IN  IF \A field \in fields :
                  \A v \in credentialValues(nodes, field) : v \in {"", Undefined}
            THEN apiKeys = NullObject
            ELSE /\ apiKeys # NullObject
                 /\ DOMAIN apiKeys \subseteq fields
                 /\ \A field \in DOMAIN apiKeys :
                       /\ apiKeys[field] \notin {"", Undefined, Null}
                       /\ apiKeys[field] \in credentialValues(nodes, field)

\* a save request is in flight whose bundle has the language model's key and
\* no websearch field, the language model's serpApiKey being empty
SecretsBundleOmitsEmpty ==
    \E i \in 1..Len(saves) :
        /\ saves[i].request.api_keys # NullObject
        /\ DOMAIN saves[i].request.api_keys = {"llm"}
        /\ \E n \in 1..Len(nodes) :
              /\ nodes[n].type = "llmNode"
              /\ nodes[n].data.config.apiKey = "k1"
              /\ nodes[n].data.config.serpApiKey = ""

\* C18: no node config in the nodes map of a save request has the key
\* uploadedFile, with a value or with null, and it has every other key of the
\* node's config with the value the config holds.
UploadedFileStripped ==
    \A i \in 1..Len(saves) :
        \A n \in 1..Len(nodes) :
            (\A m \in (n + 1)..Len(nodes) : nodes[m].id # nodes[n].id)
            => LET config == nodes[n].data.config
                   wire == saves[i].request.nodes[nodes[n].id].data.config
               IN  /\ "uploadedFile" \notin DOMAIN wire
                   /\ DOMAIN wire = DOMAIN config \ {"uploadedFile"}
                   /\ \A key \in DOMAIN wire : wire[key] = config[key]

\* a save request is in flight for a knowledge base that holds a picked file:
\* the request has the file's name and not the file
SavedWithoutPickedFile ==
    \E i \in 1..Len(saves) :
        \E n \in 1..Len(nodes) :
            /\ nodes[n].type = "knowledgeBaseNode"
            /\ nodes[n].data.config.uploadedFile = File
            /\ nodes[n].id \in DOMAIN saves[i].request.nodes
            /\ saves[i].request.nodes[nodes[n].id].data.config.uploadedFileName = "notes.pdf"
            /\ "uploadedFile" \notin DOMAIN saves[i].request.nodes[nodes[n].id].data.config

----------------------------------------------------------------------------
(* Running: the user builds a graph, edits it and runs it; the edits go on   *)
(* while the run's requests are in flight                                    *)

MaxRunNodes == 3

RunKinds == {"userQueryNode", "outputNode", "llmNode"}

\* the steps of a session other than the drops
RunSteps ==
    \/ \E i \in 1..Len(nodes) :
          \/ \E c \in configChanges(nodes[i].type) \ {[serpApiKey |-> "s1"]} :
                updateNodeConfig(nodes[i].id, c)
          \/ removeNode(nodes[i].id)
    \/ \E id \in WorkflowIds : setSelectedWorkflowId(id)
    \/ handleRunWorkflow
    \/ \E r \in SaveResponses : runSaveSettled(r)
    \/ \E r \in ExecuteResponses : runExecuteSettled(r)

NextRun ==
    \/ \E type \in RunKinds : Len(nodes) < MaxRunNodes /\ onDrop(type)
    \/ RunSteps

SpecRun == Init /\ [][NextRun]_vars

\* the nodes of a kind, in the order of the list
nodesOfKind(ns, kind) == SelectSeq(ns, LAMBDA n : n.type = kind)

QueryReason == "Please enter a query in the User Query node"
ApiKeyReason == "Please configure an API key in your LLM node"

\* a readiness condition fails: a required kind has no node, or the query of
\* the query node is empty or the placeholder, or the API key of the language
\* model is empty (of the first node of the kind when there are several: the
\* node the run takes its query from)
NotReady(ns) ==
    \/ \E kind \in {"userQueryNode", "outputNode", "llmNode"} :
          nodesOfKind(ns, kind) = <<>>
    \/ Get(nodesOfKind(ns, "userQueryNode")[1].data.config, "query")
          \in {"", Undefined, QueryPlaceholder}
    \/ Get(nodesOfKind(ns, "llmNode")[1].data.config, "apiKey") \in {"", Undefined}

\* C8: when the graph fails a readiness condition, a click on Run ends in a
\* blocked outcome with a reason, no save request and no execute request is
\* sent, and nodes, edges and selectedWorkflowId are as they were.
NotReadyBlocksLocally ==
    [][(last'.op = "handleRunWorkflow" /\ NotReady(nodes)) =>
        /\ executionResult' # NullObject
        /\ executionResult'.success = FALSE
        /\ Truthy(executionResult'.message)
        /\ run'.pc = "idle"
        /\ run'.saveRequest = NullObject
        /\ run'.executeRequest = NullObject
        /\ ~isExecuting'
        /\ saves' = saves
        /\ nodes' = nodes
        /\ edges' = edges
        /\ selectedWorkflowId' = selectedWorkflowId]_vars

\* Run has just been clicked on a graph with the three kinds, a query and a
\* workflow id, whose language model has no API key: the outcome is the
\* blocking reason and no request is out
BlockedForApiKey ==
    /\ last.op = "handleRunWorkflow"
    /\ Truthy(selectedWorkflowId)
    /\ Len(nodes) = 3
    /\ NotReady(nodes)
    /\ executionResult # NullObject
    /\ executionResult.message = ApiKeyReason
    /\ run.saveRequest = NullObject

\* C9: when several readiness conditions fail, the blocked outcome reports a
\* reason for each: for one query node with the placeholder query, one output
\* node and one language model with apiKey = "", the reasons reported include
\* the reason for the query and the reason for the API key.
EveryReasonReported ==
    [][(/\ last'.op = "handleRunWorkflow"
        /\ Len(nodes) = 3
        /\ \A kind \in {"userQueryNode", "outputNode", "llmNode"} :
              Len(nodesOfKind(nodes, kind)) = 1
        /\ nodesOfKind(nodes, "userQueryNode")[1].data.config.query = QueryPlaceholder
        /\ nodesOfKind(nodes, "llmNode")[1].data.config.apiKey = "")
       => /\ executionResult' # NullObject
          /\ {QueryReason, ApiKeyReason}
                \subseteq {executionResult'.message, executionResult'.error}]_vars

\* C10: the execute request of a run is sent only after the save request of
\* that run has returned success: the two are never out together, and a run
\* whose save failed has sent no execute request.
ExecuteOnlyAfterSaved ==
    /\ run.executeRequest # NullObject => run.saved /\ run.saveRequest = NullObject
    /\ run.pc = "saving" => run.saveRequest # NullObject /\ run.executeRequest = NullObject
    /\ run.pc = "executing" => run.executeRequest # NullObject
    /\ ~run.saved => run.executeRequest = NullObject

\* a run has ended on a save that failed with status 500, and has sent no
\* execute request
SaveFailedNoExecute ==
    /\ run.pc = "done"
    /\ ~run.saved
    /\ run.result # NullObject
    /\ run.result.error = "Failed to save workflow: 500 "
    /\ run.executeRequest = NullObject

\* C11: when the save of a run fails, the outcome shown for the run is a
\* failure with type = "save", which tells it from a run that saved and then
\* failed to execute.
SaveFailureHasTypeSave ==
    [][(last'.op = "runSaveSettled" /\ run'.pc = "done") =>
        /\ executionResult' # NullObject
        /\ executionResult'.success = FALSE
        /\ executionResult'.type = "save"]_vars

----------------------------------------------------------------------------
(* A session with both buttons and the shortcut: the user builds a graph of  *)
(* one node of each kind while no request is out, saves with the button or   *)
(* with Ctrl+S, and runs                                                     *)

MaxSessionSaves == 2

\* a request of the session is out
requestPending == saves # <<>> \/ run.pc \in {"saving", "executing"}

NextSession ==
    \/ /\ ~requestPending
       /\ \/ \E type \in RunKinds :
                NodeId(type, now) \notin NodeIds(nodes) /\ onDrop(type)
          \/ \E i \in 1..Len(nodes) :
                \E c \in configChanges(nodes[i].type) \ {[serpApiKey |-> "s1"]} :
                    updateNodeConfig(nodes[i].id, c)
    \/ \E id \in WorkflowIds : setSelectedWorkflowId(id)
    \/ handleRunWorkflow
    \/ clickSave
    \/ Len(saves) < MaxSessionSaves /\ handleSaveWorkflow
    \/ \E i \in 1..Len(saves) : \E r \in SaveResponses : saveSettled(i, r)
    \/ \E r \in SaveResponses : runSaveSettled(r)
    \/ \E r \in ExecuteResponses : runExecuteSettled(r)

SpecSession == Init /\ [][NextSession]_vars

\* C13: a save started while selectedWorkflowId is unset fails with the error
\* of the missing id before any request is sent and leaves nodes, edges and
\* selectedWorkflowId as they were; a run started without a workflow id sends
\* neither a save nor an execute request.
NoWorkflowIdNoRequest ==
    [][(/\ last'.op \in {"handleSaveWorkflow", "handleRunWorkflow"}
        /\ selectedWorkflowId \in {Null, Undefined, ""})
       => /\ saves' = saves
          /\ run'.pc \notin {"saving", "executing"}
          /\ run'.saveRequest = NullObject
          /\ run'.executeRequest = NullObject
          /\ executionResult' # NullObject
          /\ executionResult'.success = FALSE
          /\ \/ executionResult'.error = NoWorkflowId
             \/ last'.op = "handleRunWorkflow" /\ NotReady(nodes)
          /\ nodes' = nodes
          /\ edges' = edges
          /\ selectedWorkflowId' = selectedWorkflowId]_vars

\* Run has just been clicked on a ready graph with no workflow id: the run
\* has ended on the error of the missing id with no request sent
RunWithoutWorkflowId ==
    /\ last.op = "handleRunWorkflow"
    /\ selectedWorkflowId = Null
    /\ ~NotReady(nodes)
    /\ run.pc = "done"
    /\ run.result # NullObject
    /\ run.result.error = NoWorkflowId
    /\ run.saveRequest = NullObject
    /\ saves = <<>>

\* C20: at most one save or execute request of the session is in flight: no
\* save and no run starts, by a button or by Ctrl+S, while another is pending.
SingleRequestInFlight ==
    Len(saves) + (IF run.pc \in {"saving", "executing"} THEN 1 ELSE 0) <= 1

----------------------------------------------------------------------------
(* Running a graph with several nodes of one kind, dropped at different     *)
(* times, before the run and while its requests are in flight                *)

MaxManyNodes == 4

NextRunMany ==
    \/ \E type \in RunKinds :
          /\ Len(nodes) < MaxManyNodes
          /\ NodeId(type, now) \notin NodeIds(nodes)
          /\ onDrop(type)
    \/ Tick
    \/ RunSteps

SpecRunMany == Init /\ [][NextRunMany]_vars

\* C12: when the execute request returns success with a result r and the graph
\* has a single output node, afterwards the config.output of that node is r,
\* and nothing else of the graph has changed: no other node, no other config
\* key of the output node, no edge.
ResultWrittenToOutputNode ==
    [][(/\ last'.op = "runExecuteSettled"
        /\ last'.response.kind = "ok"
        /\ Truthy(last'.response.result)
        /\ Len(nodesOfKind(nodes, "outputNode")) = 1)
       => /\ Len(nodes') = Len(nodes)
          /\ \A i \in 1..Len(nodes) :
                IF nodes[i].type = "outputNode"
                THEN /\ nodes'[i].data.config.output = last'.response.result
                     /\ [nodes'[i] EXCEPT !.data.config.output =
                             nodes[i].data.config.output] = nodes[i]
                ELSE nodes'[i] = nodes[i]
          /\ edges' = edges]_vars

\* C7: a run is allowed only for a graph with exactly one query node, one
\* output node and one language model: on a graph with none, or with two or
\* more, of one of these kinds a click on Run sends no save and no execute
\* request.
OnlyExactlyOneOfEachRuns ==
    [][(/\ last'.op = "handleRunWorkflow"
        /\ \E kind \in {"userQueryNode", "outputNode", "llmNode"} :
              Len(nodesOfKind(nodes, kind)) # 1)
       => /\ run'.pc \notin {"saving", "executing"}
          /\ run'.saveRequest = NullObject
          /\ run'.executeRequest = NullObject
          /\ ~isExecuting']_vars

----------------------------------------------------------------------------
(* Labelling: the user drops one node of a kind, connects two nodes of the   *)
(* canvas by any handles while there is no edge, and removes the edge        *)

MaxLabelNodes == 3

LabelKinds == componentTypes \cup {"webSearchNode"}

NextLabel ==
    \/ \E type \in LabelKinds :
          /\ Len(nodes) < MaxLabelNodes
          /\ NodeId(type, now) \notin NodeIds(nodes)
          /\ onDrop(type)
    \/ \E c \in AnyConnections(nodes) : edges = <<>> /\ onConnect(c)
    \/ \E i \in 1..Len(edges) : removeEdge(edges[i].id)

SpecLabel == Init /\ [][NextLabel]_vars

\* the value of a row that matches whatever the connection has
AnyValue == "*"

\* the table of edge labels in its listed order: the source's kind and handle,
\* the target's kind and handle, and the label
EdgeLabelRows ==
    <<[source |-> "userQueryNode", sourceHandle |-> AnyValue,
       target |-> AnyValue, targetHandle |-> AnyValue, label |-> "Query"],
      [source |-> AnyValue, sourceHandle |-> AnyValue,
       target |-> "knowledgeBaseNode", targetHandle |-> "kb-input", label |-> "Query Intake"],
      [source |-> "knowledgeBaseNode", sourceHandle |-> "kb-output",
       target |-> AnyValue, targetHandle |-> AnyValue, label |-> "Context"],
      [source |-> AnyValue, sourceHandle |-> AnyValue,
       target |-> "llmNode", targetHandle |-> "context-input", label |-> "Context"],
      [source |-> AnyValue, sourceHandle |-> AnyValue,
       target |-> "llmNode", targetHandle |-> "query-input", label |-> "Query"],
      [source |-> "llmNode", sourceHandle |-> "llm-output",
       target |-> AnyValue, targetHandle |-> AnyValue, label |-> "Answer"],
      [source |-> AnyValue, sourceHandle |-> AnyValue,
       target |-> "outputNode", targetHandle |-> AnyValue, label |-> "Final Output"]>>

\* the rows of the table an edge between nodes of two kinds matches
matchingRows(sourceKind, targetKind, edge) ==
    {r \in 1..Len(EdgeLabelRows) :
        /\ EdgeLabelRows[r].source \in {AnyValue, sourceKind}
        /\ EdgeLabelRows[r].sourceHandle \in {AnyValue, edge.sourceHandle}
        /\ EdgeLabelRows[r].target \in {AnyValue, targetKind}
        /\ EdgeLabelRows[r].targetHandle \in {AnyValue, edge.targetHandle}}

\* the label of the first row of the table that matches, Connection if none
firstRowLabel(sourceKind, targetKind, edge) ==
    LET rows == matchingRows(sourceKind, targetKind, edge)
    IN  IF rows = {} THEN "Connection"
        ELSE EdgeLabelRows[CHOOSE r \in rows : \A q \in rows : r <= q].label

\* C19: the label onConnect stores on the edge it adds between two nodes of
\* the canvas, with any source and target handle, is the label of the first
\* row of the table of edge labels that matches, Connection if none does.
EdgeLabelIsFirstMatchingRow ==
    [][(last'.op = "onConnect" /\ Len(edges') = Len(edges) + 1)
       => LET edge == edges'[Len(edges')]
          IN  edge.data.name =
                firstRowLabel(nodes[findById(nodes, edge.source)].type,
                              nodes[findById(nodes, edge.target)].type, edge)]_vars

\* a knowledge base's kb-output has just been connected to a language model's
\* query-input: the edge is named by the knowledge base row, which comes first
ContextBeforeQuery ==
    /\ last.op = "onConnect"
    /\ Len(edges) = 1
    /\ edges[1].sourceHandle = "kb-output"
    /\ edges[1].targetHandle = "query-input"
    /\ nodes[findById(nodes, edges[1].source)].type = "knowledgeBaseNode"
    /\ nodes[findById(nodes, edges[1].target)].type = "llmNode"
    /\ edges[1].data.name = "Context"

----------------------------------------------------------------------------
(* Uploading: the route gives a workflow id or none, the user drops          *)
(* knowledge bases and picks a file in one                                   *)

MaxUploads == 1

\* the workflow ids of the route: none, the id of a new workflow, one that is
\* not a UUID, and a UUID
UploadWorkflowIds == {"new", "wf1", "123e4567-e89b-42d3-a456-426614174000"}

UploadResponses == {[kind |-> "ok", id |-> "d1"], [kind |-> "error"]}

NextUpload ==
    \/ NodeId("knowledgeBaseNode", now) \notin NodeIds(nodes) /\ onDrop("knowledgeBaseNode")
    \/ Tick
    \/ \E id \in UploadWorkflowIds : setSelectedWorkflowId(id)
    \/ \E i \in 1..Len(nodes) :
          /\ Len(uploads) < MaxUploads
          /\ \/ handleFileUpload(nodes[i].id)
             \/ \E stackId \in getValidStackId(nodes[i].data.config, routeWorkflowId,
                                                nodes[i].id) :
                   handleFileUploadWithStackId(nodes[i].id, routeWorkflowId, stackId)
    \/ \E i \in 1..Len(uploads) : \E r \in UploadResponses : uploadSettled(i, r)

SpecUpload == Init /\ [][NextUpload]_vars

----------------------------------------------------------------------------
(* The renderer: the user drops nodes and connects them, and the renderer    *)
(* passes batches of changes to onNodesChange and onEdgesChange              *)

MaxBatch == 2

RendererKinds == {"userQueryNode", "llmNode", "outputNode"}

\* the changes the renderer makes for elements: removals, and moves of nodes
NodeChanges(ns) ==
    {[type |-> "remove", id |-> id] : id \in NodeIds(ns)}
    \cup {[type |-> "position", id |-> id, position |-> [x |-> 50, y |-> 50]] :
            id \in NodeIds(ns)}

EdgeChanges(es) == {[type |-> "remove", id |-> es[i].id] : i \in 1..Len(es)}

\* the batches of at most MaxBatch changes
Batches(changes) ==
    UNION {[1..n -> changes] : n \in 1..MaxBatch}

NextRenderer ==
    \/ \E type \in RendererKinds :
          NodeId(type, now) \notin NodeIds(nodes) /\ onDrop(type)
    \/ \E c \in Connections(RendererKinds, now) :
          /\ Len(edges) < MaxBatch
          /\ c.source # c.target
          /\ {c.source, c.target} \subseteq NodeIds(nodes)
          /\ onConnect(c)
    \/ \E changes \in Batches(NodeChanges(nodes)) : onNodesChange(changes)
    \/ \E changes \in Batches(EdgeChanges(edges)) : onEdgesChange(changes)

SpecRenderer == Init /\ [][NextRenderer]_vars

\* C23: after a batch of changes that removes nodes, passed to onNodesChange,
\* no edge of the store has a removed node as its source or its target.
BatchRemovalLeavesNoDanglingEdge ==
    [][last'.op = "onNodesChange"
       => \A c \in 1..Len(last'.changes) :
            last'.changes[c].type = "remove"
            => \A e \in 1..Len(edges') :
                  /\ edges'[e].source # last'.changes[c].id
                  /\ edges'[e].target # last'.changes[c].id]_vars

----------------------------------------------------------------------------
(* Adding: addNode is called with nodes of every kind, with a config of the  *)
(* caller's or none, in a store that holds nodes and edges                   *)

MaxAddNodes == 2

\* the kinds of the nodes given to addNode: the five, and one that has no defaults
AddKinds == DOMAIN frontendToBackend \cup {"custom"}

\* the configs a caller gives: none, the page's defaults, and values of its own
AddConfigs(type) ==
    {EmptyObject, getDefaultConfig(type), [apiKey |-> "k9", note |-> "n1"]}

\* the nodes given to addNode at a time
AddNodes(t) ==
    UNION {{[id |-> NodeId(type, t), type |-> type, position |-> [x |-> 0, y |-> 0],
             data |-> [label |-> getNodeLabel(type), name |-> name, type |-> type,
                       config |-> config]] :
               name \in {"", "Mine"}, config \in AddConfigs(type)} :
           type \in AddKinds}

\* a call of addNode
addNodeCalled(node) ==
    /\ addNode(node)
    /\ last' = [op |-> "addNode", id |-> node.id, node |-> node]
    /\ UNCHANGED <<now, pageVars>>

NextAdd ==
    \/ \E node \in AddNodes(now) : Len(nodes) < MaxAddNodes /\ addNodeCalled(node)
    \/ \E c \in Connections({"userQueryNode", "llmNode"}, now) :
          /\ edges = <<>>
          /\ {c.source, c.target} \subseteq NodeIds(nodes)
          /\ onConnect(c)
    \/ \E i \in 1..Len(nodes) : removeNode(nodes[i].id)

SpecAdd == Init /\ [][NextAdd]_vars

\* C24: addNode appends one node and leaves every node and every edge of the
\* store as it is; the new node's config has every key of the defaults of its
\* kind, with the caller's value for the keys the caller gives and the
\* default for the others.
AddNodeAppendsWithDefaults ==
    [][(last'.op = "addNode" /\ "node" \in DOMAIN last')
       => LET given == last'.node.data.config
              defaults == initialConfig(last'.node.data.type)
              config == nodes'[Len(nodes')].data.config
          IN  /\ Len(nodes') = Len(nodes) + 1
              /\ SubSeq(nodes', 1, Len(nodes)) = nodes
              /\ edges' = edges
              /\ nodes'[Len(nodes')].id = last'.node.id
              /\ nodes'[Len(nodes')].type = last'.node.type
              /\ DOMAIN config = DOMAIN defaults \cup DOMAIN given
              /\ \A key \in DOMAIN config :
                    config[key] = IF key \in DOMAIN given THEN given[key]
                                  ELSE defaults[key]]_vars

\* a language model has just been added with a config that has an apiKey
\* only, to a store that holds an edge: its config has the caller's apiKey
\* and the default model
AddedWithOwnApiKey ==
    /\ last.op = "addNode"
    /\ Len(edges) = 1
    /\ Len(nodes) = 2
    /\ nodes[2].type = "llmNode"
    /\ last.node.data.config = [apiKey |-> "k9", note |-> "n1"]
    /\ nodes[2].data.config.apiKey = "k9"
    /\ nodes[2].data.config.model = "GPT-4o-Mini"

----------------------------------------------------------------------------
(* Editing while saving: the user saves with Ctrl+S and goes on editing the  *)
(* graph while the save requests are in flight                               *)

MaxEditSaves == 1

EditKinds == {"userQueryNode", "llmNode"}

\* the operations of the store that change the graph
GraphMutations == {"addNode", "removeNode", "updateNodeConfig", "onConnect", "removeEdge"}

NextEdit ==
    \/ \E type \in EditKinds :
          NodeId(type, now) \notin NodeIds(nodes) /\ onDrop(type)
    \/ \E i \in 1..Len(nodes) :
          \/ nodes[i].type = "llmNode" /\ updateNodeConfig(nodes[i].id, [apiKey |-> "k1"])
          \/ removeNode(nodes[i].id)
    \/ \E c \in Connections(EditKinds, now) :
          /\ edges = <<>>
          /\ c.source # c.target
          /\ {c.source, c.target} \subseteq NodeIds(nodes)
          /\ onConnect(c)
    \/ \E id \in WorkflowIds : setSelectedWorkflowId(id)
    \/ Len(saves) < MaxEditSaves /\ handleSaveWorkflow
    \/ \E i \in 1..Len(saves) : \E r \in SaveResponses : saveSettled(i, r)

SpecEdit == Init /\ [][NextEdit]_vars

\* C21: the request of a save holds the graph as it is when the save is
\* invoked; a mutation of the graph while requests are in flight alters none
\* of them; the end of a save leaves the nodes and the edges as they are, so
\* that the mutation stays in the store and a later save carries it.
SavePayloadIsSnapshot ==
    [][/\ (last'.op = "handleSaveWorkflow" /\ Len(saves') = Len(saves) + 1)
          => /\ saves'[Len(saves')].request.nodes = toWire(nodes, edges).nodes
             /\ saves'[Len(saves')].request.edges = toWire(nodes, edges).edges
             /\ SubSeq(saves', 1, Len(saves)) = saves
       /\ last'.op \in GraphMutations => saves' = saves
       /\ last'.op = "saveSettled" => nodes' = nodes /\ edges' = edges]_vars

\* a node's apiKey has just been set while a save request is in flight: the
\* request holds the graph without the key, the store holds it with the key
EditedWhileSaving ==
    /\ last.op = "updateNodeConfig"
    /\ Len(saves) = 1
    /\ \E i \in 1..Len(nodes) :
          /\ nodes[i].type = "llmNode"
          /\ nodes[i].data.config.apiKey = "k1"
          /\ nodes[i].id \in DOMAIN saves[1].request.nodes
          /\ saves[1].request.nodes[nodes[i].id].data.config.apiKey = ""
    /\ saves[1].request.nodes # toWire(nodes, edges).nodes

----------------------------------------------------------------------------
(* Editing while running: the user runs the graph and goes on dropping,      *)
(* connecting, editing and removing nodes while the run's requests are in    *)
(* flight; one node of a kind at most                                        *)

NextInFlight ==
    \/ \E type \in RunKinds :
          NodeId(type, now) \notin NodeIds(nodes) /\ onDrop(type)
    \/ \E c \in Connections({"userQueryNode", "llmNode"}, now) :
          /\ edges = <<>>
          /\ c.source # c.target
          /\ {c.source, c.target} \subseteq NodeIds(nodes)
          /\ onConnect(c)
    \/ RunSteps

SpecInFlight == Init /\ [][NextInFlight]_vars

\* C27: the write of the result changes nothing of the store but the
\* config.output of the node it is written to: the nodes and edges that the
\* edits made during the run have left are all there afterwards, and when the
\* output node has been removed in the meantime the write changes nothing and
\* adds no node.
WriteBackKeepsEdits ==
    [][last'.op = "runExecuteSettled"
       => /\ edges' = edges
          /\ Len(nodes') = Len(nodes)
          /\ \A i \in 1..Len(nodes) :
                \/ nodes'[i] = nodes[i]
                \/ /\ nodes[i].id = run.state.outputNodeId
                   /\ nodes'[i] =
                         [nodes[i] EXCEPT !.data.config =
                             Spread(@, [output |-> last'.response.result])]
          /\ (\A i \in 1..Len(nodes) : nodes[i].id # run.state.outputNodeId)
                => nodes' = nodes]_vars

\* the execute request of a run has returned a result after the output node
\* was removed and the query was connected to the language model during the
\* run: the store has the edge and no output node
WrittenBackAfterRemoval ==
    /\ last.op = "runExecuteSettled"
    /\ last.response.kind = "ok"
    /\ last.response.result = "r1"
    /\ run.state.outputNodeId # Undefined
    /\ findById(nodes, run.state.outputNodeId) = 0
    /\ findByType(nodes, "outputNode") = 0
    /\ Len(edges) = 1
    /\ Len(nodes) = 2

\* C26: the execute request of a run has the stack_id that selectedWorkflowId
\* holds after the run's save: the service's id when the save's response
\* gives another id than the one saved under.
ExecuteNamesSavedWorkflow ==
    [][(last'.op = "runSaveSettled" /\ run'.pc = "executing")
       => run'.executeRequest.stack_id = selectedWorkflowId']_vars

\* C30: a run ends in a result and never in an error of its caller's: the
\* response of its save leads to the execute request or to a failure result,
\* and a response of its execute that is not ok to a failure result; a
\* failure result has success = false and the error's message, and the step
\* that gives it leaves the node list and the edge list as they are.
RunFailureIsAResult ==
    [][/\ last'.op = "runSaveSettled" => run'.pc \in {"executing", "done"}
       /\ (last'.op = "runExecuteSettled" /\ last'.response.kind # "ok")
             => run'.pc = "done" /\ ~run'.result.success
       /\ (/\ last'.op \in {"handleRunWorkflow", "runSaveSettled", "runExecuteSettled"}
           /\ run'.pc = "done"
           /\ ~run'.result.success)
             => /\ Truthy(run'.result.error)
                /\ run'.result.message =
                      "Failed to save and execute workflow: " \o run'.result.error
                /\ executionResult'.success = FALSE
                /\ executionResult'.error = run'.result.error
                /\ nodes' = nodes
                /\ edges' = edges]_vars

\* the execute request of a run of a graph of three nodes has been rejected
\* by the network: the run has ended in a failure result with the message
ExecuteRejectedByNetwork ==
    /\ last.op = "runExecuteSettled"
    /\ last.response.kind = "network"
    /\ run.pc = "done"
    /\ run.result.success = FALSE
    /\ run.result.error = "Failed to fetch"
    /\ Len(nodes) = 3
    /\ ~isExecuting

----------------------------------------------------------------------------
(* Sessions whose requests are all answered in the end                      *)

MaxLiveSaves == 1

NextLive ==
    \/ /\ ~requestPending
       /\ \/ \E type \in RunKinds :
                NodeId(type, now) \notin NodeIds(nodes) /\ onDrop(type)
          \/ \E i \in 1..Len(nodes) :
                \E c \in configChanges(nodes[i].type) \ {[serpApiKey |-> "s1"]} :
                    updateNodeConfig(nodes[i].id, c)
    \/ \E id \in WorkflowIds : setSelectedWorkflowId(id)
    \/ handleRunWorkflow
    \/ Len(saves) < MaxLiveSaves /\ handleSaveWorkflow
    \/ \E i \in 1..Len(saves) : \E r \in SaveResponses : saveSettled(i, r)
    \/ \E r \in SaveResponses : runSaveSettled(r)
    \/ \E r \in ExecuteResponses : runExecuteSettled(r)

SpecLive ==
    /\ Init /\ [][NextLive]_vars
    /\ WF_vars(\E i \in 1..Len(saves) : \E r \in SaveResponses : saveSettled(i, r))
    /\ WF_vars(\E r \in SaveResponses : runSaveSettled(r))
    /\ WF_vars(\E r \in ExecuteResponses : runExecuteSettled(r))

\* C29: when every request is answered in the end, a run that has started
\* ends in a result, and isSaving and isExecuting return to false.
BusyFlagsReturnToFalse ==
    /\ (run.pc \in {"saving", "executing"}) ~> (run.pc = "done")
    /\ isExecuting ~> ~isExecuting
    /\ isSaving ~> ~isSaving

\* a save started with Ctrl+S during a run has failed and the run has ended
\* in a failure of its execute request: no request is pending and both flags
\* are false
SessionAtRestAfterFailures ==
    /\ run.pc = "done"
    /\ ~run.result.success
    /\ run.saved
    /\ saves = <<>>
    /\ executionResult.type = "save"
    /\ ~executionResult.success
    /\ ~isSaving
    /\ ~isExecuting

====
